---- MODULE Spec2Model ----
(***************************************************************************)
(* A model of ls.py: an implementation of the ls command for the options   *)
(* -a -F -h -l -S.  Strings are sequences of one-character strings, so     *)
(* that concatenation, slicing, comparison and path resolution are         *)
(* computed rather than assumed.                                           *)
(***************************************************************************)
EXTENDS Integers, Sequences, FiniteSets, TLC

VARIABLES
    \* ---- one run of main(argv) ----
    optLetters,      \* the option letters given on the command line
    args,            \* the path arguments left by getopt
    pc,              \* position of main
    dictOpts,        \* main's dictOpts
    fileArgs, dirArgs, noFileOrDirArgs,
    dirIdx,          \* cnt of output_of_dir_args
    out,             \* lines printed so far, each tagged with the printing function
    exitStatus,      \* exit status of the process, NoExit while running
    \* ---- FileList objects driven call by call ----
    lists,           \* the FileList objects
    lpc,             \* "run" or "crashed" (an uncaught exception)
    last,            \* the last call made on a FileList
    \* ---- one File object ----
    fmode, flink,    \* st_mode of the stat result, result of is_symlink
    ftype,           \* File.type
    ftext            \* result of get_permissions_text

vars == <<optLetters, args, pc, dictOpts, fileArgs, dirArgs, noFileOrDirArgs,
          dirIdx, out, exitStatus, lists, lpc, last, fmode, flink, ftype, ftext>>

mainVars == <<optLetters, args, pc, dictOpts, fileArgs, dirArgs, noFileOrDirArgs,
              dirIdx, out, exitStatus>>
listVars == <<lists, lpc, last>>
fileVars == <<fmode, flink, ftype, ftext>>

----------------------------------------------------------------------------
(* Bounds *)

MaxArgs == 3
MaxCalls == 3

----------------------------------------------------------------------------
(* Strings *)

\* Code points of the characters used, for Python's string comparison.
Ord(c) ==
    CASE c = "\t" -> 9 [] c = " " -> 32 [] c = "-" -> 45 [] c = "." -> 46
      [] c = "/" -> 47 [] c = "0" -> 48 [] c = "1" -> 49 [] c = "2" -> 50
      [] c = "3" -> 51 [] c = "4" -> 52 [] c = "5" -> 53 [] c = "6" -> 54
      [] c = "7" -> 55 [] c = "8" -> 56 [] c = "9" -> 57 [] c = ":" -> 58
      [] c = ">" -> 62 [] c = "a" -> 97 [] c = "b" -> 98 [] c = "c" -> 99
      [] c = "d" -> 100 [] c = "e" -> 101 [] c = "f" -> 102 [] c = "g" -> 103
      [] c = "h" -> 104 [] c = "k" -> 107 [] c = "l" -> 108 [] c = "s" -> 115
      [] c = "u" -> 117 [] c = "w" -> 119 [] c = "x" -> 120 [] c = "y" -> 121
      [] OTHER -> 0

\* s < t for Python strings: the first differing character decides, a proper
\* prefix is smaller.
RECURSIVE StrLess(_, _)
StrLess(s, t) ==
    IF t = <<>> THEN FALSE
    ELSE IF s = <<>> THEN TRUE
    ELSE IF Ord(Head(s)) # Ord(Head(t)) THEN Ord(Head(s)) < Ord(Head(t))
    ELSE StrLess(Tail(s), Tail(t))

Digit(d) == <<"0", "1", "2", "3", "4", "5", "6", "7", "8", "9">>[d + 1]

\* str(n) for n >= 0
RECURSIVE Str(_)
Str(n) == IF n < 10 THEN <<Digit(n)>> ELSE Str(n \div 10) \o <<Digit(n % 10)>>

Take(s, n) == SubSeq(s, 1, n)

\* F(v), with v evaluated once: a local variable holding the result of a call
With(v, F(_)) == CHOOSE x \in {F(a) : a \in {v}} : TRUE

\* index of the last "/" of s, 0 when there is none
RECURSIVE LastSlash(_)
LastSlash(s) ==
    IF s = <<>> THEN 0
    ELSE IF s[Len(s)] = "/" THEN Len(s)
    ELSE LastSlash(Take(s, Len(s) - 1))

RECURSIVE StripTrailingSlashes(_)
StripTrailingSlashes(s) ==
    IF s # <<>> /\ s[Len(s)] = "/" THEN StripTrailingSlashes(Take(s, Len(s) - 1))
    ELSE s

\* the components of a path: the pieces between "/" characters
RECURSIVE Split(_, _)
Split(s, cur) ==
    IF s = <<>> THEN <<cur>>
    ELSE IF Head(s) = "/" THEN <<cur>> \o Split(Tail(s), <<>>)
    ELSE Split(Tail(s), Append(cur, Head(s)))

----------------------------------------------------------------------------
(* The environment: a file system, the user and group databases, the clock *)

S_IFMT == 61440
S_IFDIR == 16384
S_IFCHR == 8192
S_IFBLK == 24576
S_IFREG == 32768
S_IFIFO == 4096
S_IFLNK == 40960
S_IFSOCK == 49152
S_ISUID == 2048
S_ISGID == 1024
S_ISVTX == 512
S_IXUSR == 64
S_IXGRP == 8
S_IXOTH == 1

NoNode == 0
Root == 1
CwdNode == 2

Dir(parent, ents, nlink) ==
    [kind |-> "dir", parent |-> parent, entries |-> ents, link |-> <<>>,
     st_mode |-> S_IFDIR + 493, st_size |-> 4096, st_nlink |-> nlink,
     st_uid |-> 0, st_gid |-> 0, atimeYear |-> 2015]

Reg(parent, perm, size, nlink, uid, gid, year) ==
    [kind |-> "file", parent |-> parent, entries |-> {}, link |-> <<>>,
     st_mode |-> S_IFREG + perm, st_size |-> size, st_nlink |-> nlink,
     st_uid |-> uid, st_gid |-> gid, atimeYear |-> year]

Lnk(parent, target) ==
    [kind |-> "symlink", parent |-> parent, entries |-> {}, link |-> target,
     st_mode |-> S_IFLNK + 511, st_size |-> Len(target), st_nlink |-> 1,
     st_uid |-> 0, st_gid |-> 0, atimeYear |-> 2015]

\* /            1
\* /w           2   the current working directory
\* /w/f         3   regular
\* /w/s         4   directory: f (regular), e (empty directory), l -> e
\* /w/d         5   directory: a, c, .h (regular; a and c have the same size)
\* /w/k         6   directory: x -> g (dangling), y (regular, owned by a uid and
\*                  gid that have no name)
FS ==
    [n \in 1..14 |->
        CASE n = 1 -> Dir(1, {<< <<"w">>, 2 >>}, 3)
          [] n = 2 -> Dir(1, {<< <<"f">>, 3 >>, << <<"s">>, 4 >>, << <<"d">>, 5 >>,
                              << <<"k">>, 6 >>}, 5)
          [] n = 3 -> Reg(2, 420, 5, 1, 0, 0, 2015)
          [] n = 4 -> Dir(2, {<< <<"f">>, 7 >>, << <<"e">>, 8 >>, << <<"l">>, 9 >>}, 3)
          [] n = 5 -> Dir(2, {<< <<"a">>, 10 >>, << <<"c">>, 11 >>,
                              << <<".", "h">>, 12 >>}, 2)
          [] n = 6 -> Dir(2, {<< <<"x">>, 13 >>, << <<"y">>, 14 >>}, 2)
          [] n = 7 -> Reg(4, 2541, 2048, 10, 1, 1, 2012)
          [] n = 8 -> Dir(4, {}, 2)
          [] n = 9 -> Lnk(4, <<"e">>)
          [] n = 10 -> Reg(5, 420, 100, 1, 1, 0, 2015)
          [] n = 11 -> Reg(5, 1000, 100, 12, 0, 1, 2013)
          [] n = 12 -> Reg(5, 384, 1, 1, 1, 1, 2015)
          [] n = 13 -> Lnk(6, <<"g">>)
          [] OTHER -> Reg(6, 384, 1234, 1, 7, 7, 2010)]

Cwd == <<"/", "w">>
CurYear == 2015

Passwd == (0 :> <<"r", "o", "o", "t">>) @@ (1 :> <<"a", "l">>)
Group == (0 :> <<"w", "h", "e", "e", "l">>) @@ (1 :> <<"g">>)

Entry(node, name) ==
    IF \E e \in FS[node].entries : e[1] = name
    THEN (CHOOSE e \in FS[node].entries : e[1] = name)[2]
    ELSE NoNode

\* Walks the components from directory cur; symbolic links are followed, the
\* last one only when followLast.  NoNode when the path does not resolve.
RECURSIVE Walk(_, _, _, _)
Walk(cur, comps, followLast, fuel) ==
    IF cur = NoNode \/ fuel = 0 THEN NoNode
    ELSE IF comps = <<>> THEN cur
    ELSE IF FS[cur].kind # "dir" THEN NoNode
    ELSE LET c == Head(comps)
             rest == Tail(comps)
             nxt == IF c = <<>> \/ c = <<".">> THEN cur
                    ELSE IF c = <<".", ".">> THEN FS[cur].parent
                    ELSE Entry(cur, c)
         IN  IF nxt # NoNode /\ FS[nxt].kind = "symlink" /\ (rest # <<>> \/ followLast)
             THEN LET tgt == FS[nxt].link
                      from == IF tgt # <<>> /\ tgt[1] = "/" THEN Root ELSE cur
                  IN  Walk(Walk(from, Split(tgt, <<>>), TRUE, fuel - 1), rest,
                           followLast, fuel - 1)
             ELSE Walk(nxt, rest, followLast, fuel - 1)

Fuel == 12

Lookup(path, followLast) ==
    IF path = <<>> THEN NoNode
    ELSE Walk(IF path[1] = "/" THEN Root ELSE CwdNode, Split(path, <<>>),
              followLast, Fuel)

----------------------------------------------------------------------------
(* Wrappers of the operating system calls *)

\* a printed line: the function whose print statement printed it, and its text
Line(src, text) == [src |-> src, text |-> text]

\* e.message of an os.error raised with (errno, strerror): the empty string
OsErrorMessage == <<>>
\* e.message of the KeyError raised by pwd.getpwuid / grp.getgrgid
KeyErrorMessage == <<"i", "d">>

Stat(node) ==
    [st_mode |-> FS[node].st_mode, st_size |-> FS[node].st_size,
     st_nlink |-> FS[node].st_nlink, st_uid |-> FS[node].st_uid,
     st_gid |-> FS[node].st_gid, atimeYear |-> FS[node].atimeYear]

KindOf(n) == IF n = NoNode THEN "none" ELSE FS[n].kind

isfile(path) == KindOf(Lookup(path, TRUE)) = "file"

isdir(path) == KindOf(Lookup(path, TRUE)) = "dir"

is_symlink(path) == KindOf(Lookup(path, FALSE)) = "symlink"

\* os.readlink: the link text, an OSError (ok = FALSE) when the path is no
\* symbolic link
readlink(path) ==
    With(Lookup(path, FALSE), LAMBDA n :
        IF KindOf(n) = "symlink" THEN [ok |-> TRUE, val |-> FS[n].link]
        ELSE [ok |-> FALSE, val |-> <<>>])

\* the names os.listdir returns, an os.error (ok = FALSE) when path is no
\* directory
DirNames(path) ==
    With(Lookup(path, TRUE), LAMBDA n :
        IF KindOf(n) = "dir" THEN [ok |-> TRUE, val |-> {e[1] : e \in FS[n].entries}]
        ELSE [ok |-> FALSE, val |-> {}])

\* os.listdir returns the names in arbitrary order
Orders(S) ==
    {p \in [1..Cardinality(S) -> S] : \A i, j \in 1..Cardinality(S) : i # j => p[i] # p[j]}

get_dir_name(path) ==
    With(Take(path, LastSlash(path)), LAMBDA head :
        IF StripTrailingSlashes(head) = <<>> THEN head ELSE StripTrailingSlashes(head))

get_cwd == Cwd

RECURSIVE get_space_chars(_)
get_space_chars(numSpaces) ==
    IF numSpaces < 1 THEN <<>> ELSE get_space_chars(numSpaces - 1) \o <<" ">>

----------------------------------------------------------------------------
(* class File *)

\* a & b
RECURSIVE BitAnd(_, _)
BitAnd(a, b) ==
    IF a = 0 \/ b = 0 THEN 0
    ELSE 2 * BitAnd(a \div 2, b \div 2) + (IF a % 2 = 1 /\ b % 2 = 1 THEN 1 ELSE 0)

\* File.get_stat: the stat result, or the printed e.message and None (ok = FALSE)
get_stat(directory, name) ==
    With(Lookup(directory \o name, TRUE), LAMBDA n :
        IF n # NoNode THEN [ok |-> TRUE, val |-> Stat(n), printed |-> <<>>]
        ELSE [ok |-> FALSE, val |-> Stat(Root),
              printed |-> <<Line("get_stat", OsErrorMessage)>>])

\* File.get_type on a stat result with mode st_mode, islink being the result of
\* is_symlink(directory + name)
get_type(st_mode, islink) ==
    With(BitAnd(st_mode, S_IFMT), LAMBDA fmt :
        IF fmt = S_IFDIR THEN "d"
        ELSE IF fmt = S_IFLNK THEN "l"
        ELSE IF islink THEN "l"
        ELSE IF fmt = S_IFREG THEN "-"
        ELSE IF fmt = S_IFBLK THEN "b"
        ELSE IF fmt = S_IFCHR THEN "c"
        ELSE IF fmt = S_IFIFO THEN "p"
        ELSE IF fmt = S_IFSOCK THEN "s"
        ELSE "?")

\* File.__init__: get_type raises AttributeError (ok = FALSE) when get_stat
\* returned None
NewFile(name, directory) ==
    With(get_stat(directory, name), LAMBDA st :
    With(is_symlink(directory \o name), LAMBDA lnk :
        [ok |-> st.ok, printed |-> st.printed,
         file |-> [name |-> name, directory |-> directory, stat |-> st.val,
                   islink |-> lnk,
                   type |-> IF st.ok THEN get_type(st.val.st_mode, lnk) ELSE "?"]]))

get_time(file) ==
    IF file.stat.atimeYear < CurYear - 1
    THEN <<"b", " ", "d", " ", "H", ":", "M">>
    ELSE <<"b", " ", "d", " ">> \o Str(file.stat.atimeYear)

get_size_str(file) == Str(file.stat.st_size)

get_size(file) == file.stat.st_size

KB == 1024
MB == KB * 1024
GB == MB * 1024
TB == GB * 1024

get_human_readable_size(file) ==
    With(file.stat.st_size, LAMBDA size :
        IF size < KB THEN Str(size)
        ELSE IF size < MB THEN Str(size \div KB) \o <<"K">>
        ELSE IF size < GB THEN Str(size \div MB) \o <<"M">>
        ELSE IF size < TB THEN Str(size \div GB) \o <<"G">>
        ELSE Str(size \div TB) \o <<"T">>)

get_link_count(file) == Str(file.stat.st_nlink)

\* File.get_user_name: ok = FALSE stands for the None returned after the
\* KeyError's message was printed
get_user_name(file) ==
    IF file.stat.st_uid \in DOMAIN Passwd
    THEN [ok |-> TRUE, val |-> Passwd[file.stat.st_uid]]
    ELSE [ok |-> FALSE, val |-> <<>>]

get_group_name(file) ==
    IF file.stat.st_gid \in DOMAIN Group
    THEN [ok |-> TRUE, val |-> Group[file.stat.st_gid]]
    ELSE [ok |-> FALSE, val |-> <<>>]

rwxList ==
    << <<"-", "-", "-">>, <<"-", "-", "x">>, <<"-", "w", "-">>, <<"-", "w", "x">>,
       <<"r", "-", "-">>, <<"r", "-", "x">>, <<"r", "w", "-">>, <<"r", "w", "x">> >>

\* a variant with the two cases exchanged
SpecialExchanged(perms, st_mode, xbit, lower, upper) ==
    IF BitAnd(st_mode, xbit) # 0 THEN Take(perms, 2) \o <<upper>>
    ELSE Take(perms, 2) \o <<lower>>

\* the triplet perms with its last character replaced by lower when the execute
\* bit xbit is set in st_mode, by upper when it is not
Special(perms, st_mode, xbit, lower, upper) ==
    IF BitAnd(st_mode, xbit) # 0 THEN Take(perms, 2) \o <<lower>>
    ELSE Take(perms, 2) \o <<upper>>

\* File.get_permissions_text for a File with the given type, stat mode and
\* is_symlink result
get_permissions_text(type, st_mode, islink) ==
    IF type = "l" THEN <<"l", "r", "w", "x", "r", "w", "x", "r", "w", "x">>
    ELSE
    With(rwxList[((st_mode \div 64) % 8) + 1], LAMBDA own0 :
    With(rwxList[((st_mode \div 8) % 8) + 1], LAMBDA grp0 :
    With(rwxList[(st_mode % 8) + 1], LAMBDA oth0 :
    With(IF BitAnd(st_mode, S_ISUID) # 0
         THEN Special(own0, st_mode, S_IXUSR, "s", "S") ELSE own0, LAMBDA ownPerms :
    With(IF BitAnd(st_mode, S_ISGID) # 0
         THEN Special(grp0, st_mode, S_IXGRP, "s", "S") ELSE grp0, LAMBDA grpPerms :
    With(IF BitAnd(st_mode, S_ISVTX) # 0
         THEN Special(oth0, st_mode, S_IXOTH, "t", "T") ELSE oth0, LAMBDA othPerms :
        <<get_type(st_mode, islink)>> \o ownPerms \o grpPerms \o othPerms))))))

----------------------------------------------------------------------------
(* class FileList *)

OptionLetters == {"a", "F", "h", "l", "S"}

\* FileList.__init__: maxGroupNameSize is no attribute yet
NewFileList(options) ==
    [files |-> <<>>, options |-> options, maxFileSize |-> 0, maxUserNameSize |-> 0,
     maxGrpNameSize |-> 0, maxHarLinkSize |-> 0,
     maxGroupNameSize |-> [set |-> FALSE, val |-> 0]]

\* the loop "max = 0; for file in files: if len(...) > max: max = len(...)"
RECURSIVE LoopMax(_, _)
LoopMax(lens, max) ==
    IF lens = <<>> THEN max
    ELSE LoopMax(Tail(lens), IF Head(lens) > max THEN Head(lens) ELSE max)

Lens(strs) == [i \in 1..Len(strs) |-> Len(strs[i].val)]

AllOk(rs) == \A i \in 1..Len(rs) : rs[i].ok

set_max_file_size(fl) ==
    [fl EXCEPT !.maxFileSize =
        LoopMax([i \in 1..Len(fl.files) |-> Len(get_size_str(fl.files[i]))], 0)]

\* len(None) raises TypeError, after get_user_name printed the KeyError's message
set_max_user_name_size(fl) ==
    With([i \in 1..Len(fl.files) |-> get_user_name(fl.files[i])], LAMBDA names :
        IF AllOk(names)
        THEN [ok |-> TRUE, printed |-> <<>>,
              fl |-> [fl EXCEPT !.maxUserNameSize = LoopMax(Lens(names), 0)]]
        ELSE [ok |-> FALSE, fl |-> fl,
              printed |-> <<Line("get_user_name", KeyErrorMessage)>>])

\* a variant that stores the maximum in maxGrpNameSize, the attribute __init__
\* creates and get_long_listing_format does not read
set_max_group_name_size_into_maxGrpNameSize(fl) ==
    With([i \in 1..Len(fl.files) |-> get_group_name(fl.files[i])], LAMBDA names :
        IF AllOk(names)
        THEN [ok |-> TRUE, printed |-> <<>>,
              fl |-> [fl EXCEPT !.maxGrpNameSize = LoopMax(Lens(names), 0)]]
        ELSE [ok |-> FALSE, fl |-> fl,
              printed |-> <<Line("get_group_name", KeyErrorMessage)>>])

set_max_group_name_size(fl) ==
    With([i \in 1..Len(fl.files) |-> get_group_name(fl.files[i])], LAMBDA names :
        IF AllOk(names)
        THEN [ok |-> TRUE, printed |-> <<>>,
              fl |-> [fl EXCEPT !.maxGroupNameSize =
                        [set |-> TRUE, val |-> LoopMax(Lens(names), 0)]]]
        ELSE [ok |-> FALSE, fl |-> fl,
              printed |-> <<Line("get_group_name", KeyErrorMessage)>>])

set_max_hard_link_size(fl) ==
    [fl EXCEPT !.maxHarLinkSize =
        LoopMax([i \in 1..Len(fl.files) |-> Len(get_link_count(fl.files[i]))], 0)]

set_maximums(fl) ==
    With(set_max_user_name_size(set_max_file_size(fl)), LAMBDA r1 :
        IF ~r1.ok THEN r1
        ELSE With(set_max_group_name_size(r1.fl), LAMBDA r2 :
                IF ~r2.ok THEN r2
                ELSE [ok |-> TRUE, printed |-> <<>>,
                      fl |-> set_max_hard_link_size(r2.fl)]))

\* list.sort(key=name): a stable ascending sort
RECURSIVE InsertByName(_, _)
InsertByName(sorted, x) ==
    IF sorted # <<>> /\ StrLess(x.name, sorted[Len(sorted)].name)
    THEN Append(InsertByName(Take(sorted, Len(sorted) - 1), x), sorted[Len(sorted)])
    ELSE Append(sorted, x)

RECURSIVE SortByName(_, _)
SortByName(files, sorted) ==
    IF files = <<>> THEN sorted
    ELSE SortByName(Tail(files), InsertByName(sorted, Head(files)))

\* a variant that is not stable: an entry goes before the entries of its size
RECURSIVE InsertBySizeTiesFirst(_, _)
InsertBySizeTiesFirst(sorted, x) ==
    IF sorted # <<>> /\ get_size(x) >= get_size(sorted[Len(sorted)])
    THEN Append(InsertBySizeTiesFirst(Take(sorted, Len(sorted) - 1), x),
                sorted[Len(sorted)])
    ELSE Append(sorted, x)

\* list.sort(key=size, reverse=True): descending, and stable (reverse keeps the
\* original order of elements with equal keys)
RECURSIVE InsertBySize(_, _)
InsertBySize(sorted, x) ==
    IF sorted # <<>> /\ get_size(x) > get_size(sorted[Len(sorted)])
    THEN Append(InsertBySize(Take(sorted, Len(sorted) - 1), x), sorted[Len(sorted)])
    ELSE Append(sorted, x)

RECURSIVE SortBySize(_, _)
SortBySize(files, sorted) ==
    IF files = <<>> THEN sorted
    ELSE SortBySize(Tail(files), InsertBySize(sorted, Head(files)))

sort_file_list_by_size(fl) == [fl EXCEPT !.files = SortBySize(fl.files, <<>>)]

sort_file_list_by_name(fl) == [fl EXCEPT !.files = SortByName(fl.files, <<>>)]

WithSlash(path) == IF path[Len(path)] # "/" THEN path \o <<"/">> ELSE path

\* the tail of add_files_from_path and add_file: set_maximums, then
\* sort_file_list_by_name
Finish(fl) ==
    With(set_maximums(fl), LAMBDA m :
        IF ~m.ok THEN m
        ELSE [ok |-> TRUE, printed |-> <<>>, fl |-> sort_file_list_by_name(m.fl)])

\* a variant that, without option a, skips only "." and ".."
RECURSIVE AddItemsSkipDotDirsOnly(_, _, _)
AddItemsSkipDotDirsOnly(fl, items, path) ==
    IF items = <<>> THEN [ok |-> TRUE, fl |-> fl, printed |-> <<>>]
    ELSE IF Head(items) \in {<<".">>, <<".", ".">>} /\ ~fl.options["a"]
    THEN AddItemsSkipDotDirsOnly(fl, Tail(items), path)
    ELSE With(NewFile(Head(items), path), LAMBDA f :
            IF ~f.ok THEN [ok |-> FALSE, fl |-> fl, printed |-> f.printed]
            ELSE AddItemsSkipDotDirsOnly([fl EXCEPT !.files = Append(@, f.file)],
                                         Tail(items), path))

\* the loop of add_files_from_path over fileNames
RECURSIVE AddItems(_, _, _)
AddItems(fl, items, path) ==
    IF items = <<>> THEN [ok |-> TRUE, fl |-> fl, printed |-> <<>>]
    ELSE IF Head(items)[1] = "." /\ ~fl.options["a"] THEN AddItems(fl, Tail(items), path)
    ELSE With(NewFile(Head(items), path), LAMBDA f :
            IF ~f.ok THEN [ok |-> FALSE, fl |-> fl, printed |-> f.printed]
            ELSE AddItems([fl EXCEPT !.files = Append(@, f.file)], Tail(items), path))

\* FileList.add_files_from_path; order is the order os.listdir enumerates the
\* directory in.  list_dir returns None for a path that is no directory, and
\* None.append raises AttributeError.
add_files_from_path(fl, path, order) ==
    IF ~DirNames(WithSlash(path)).ok
    THEN [ok |-> FALSE, fl |-> fl, printed |-> <<Line("list_dir", OsErrorMessage)>>]
    ELSE With(AddItems(fl, order \o << <<".">>, <<".", ".">> >>, WithSlash(path)),
              LAMBDA r : IF ~r.ok THEN r ELSE Finish(r.fl))

\* FileList.add_file
add_file(fl, path, name) ==
    With(NewFile(name, WithSlash(path)), LAMBDA f :
        IF ~f.ok THEN [ok |-> FALSE, fl |-> fl, printed |-> f.printed]
        ELSE Finish([fl EXCEPT !.files = Append(@, f.file)]))

\* FileList.get_file_name: the name and the lines printed on the way
get_file_name(fl, file) ==
    With(IF fl.options["F"] /\ file.type = "d" THEN file.name \o <<"/">> ELSE file.name,
         LAMBDA fileName :
        IF file.type = "l" /\ fl.options["l"]
        THEN With(readlink(file.directory \o file.name), LAMBDA tgt :
                IF tgt.ok
                THEN [text |-> fileName \o <<" ", "-", ">", " ">> \o tgt.val,
                      printed |-> <<>>]
                ELSE [text |-> fileName,
                      printed |-> <<Line("get_file_name", OsErrorMessage)>>])
        ELSE [text |-> fileName, printed |-> <<>>])

get_normal_format(fl, file) == get_file_name(fl, file)

\* s padded with spaces on the left, on the right, to width
PadLeft(s, width) == get_space_chars(width - Len(s)) \o s
PadRight(s, width) == s \o get_space_chars(width - Len(s))

\* FileList.get_long_listing_format; reading maxGroupNameSize before it was
\* ever set raises AttributeError, a None name raises TypeError (ok = FALSE)
get_long_listing_format(fl, file) ==
    With(get_user_name(file), LAMBDA user :
    With(get_group_name(file), LAMBDA group :
    With(get_file_name(fl, file), LAMBDA fileName :
        IF ~user.ok \/ ~group.ok \/ ~fl.maxGroupNameSize.set
        THEN [ok |-> FALSE, text |-> <<>>, printed |-> <<>>]
        ELSE [ok |-> TRUE, printed |-> fileName.printed,
              text |-> get_permissions_text(file.type, file.stat.st_mode, file.islink)
                        \o <<" ">> \o PadLeft(get_link_count(file), fl.maxHarLinkSize)
                        \o <<" ">> \o PadRight(user.val, fl.maxUserNameSize)
                        \o <<" ">> \o PadRight(group.val, fl.maxGroupNameSize.val)
                        \o <<" ">>
                        \o PadLeft(IF fl.options["h"] THEN get_human_readable_size(file)
                                   ELSE get_size_str(file), fl.maxFileSize)
                        \o <<" ">> \o get_time(file)
                        \o <<" ">> \o fileName.text])))

\* the entry's text in show's loop, with the separator show appends to it
ShowEntry(fl, file) ==
    IF fl.options["l"]
    THEN With(get_long_listing_format(fl, file), LAMBDA r :
            [ok |-> r.ok, text |-> r.text \o <<"\n">>, printed |-> r.printed])
    ELSE With(get_normal_format(fl, file), LAMBDA r :
            [ok |-> TRUE, text |-> r.text \o <<"\t">>, printed |-> r.printed])

\* the loop of show: the output string, the lines printed while building it
RECURSIVE ShowLoop(_, _, _, _)
ShowLoop(fl, files, output, printed) ==
    IF files = <<>> THEN [ok |-> TRUE, output |-> output, printed |-> printed]
    ELSE With(ShowEntry(fl, Head(files)), LAMBDA r :
            IF ~r.ok THEN [ok |-> FALSE, output |-> output, printed |-> printed]
            ELSE ShowLoop(fl, Tail(files), output \o r.text, printed \o r.printed))

\* FileList.show
show(fl) ==
    With(IF fl.options["S"] THEN sort_file_list_by_size(fl) ELSE fl, LAMBDA sorted :
    With(ShowLoop(sorted, sorted.files, <<>>, <<>>), LAMBDA r :
        IF ~r.ok THEN [ok |-> FALSE, fl |-> sorted, printed |-> r.printed]
        ELSE [ok |-> TRUE, fl |-> sorted,
              printed |-> Append(r.printed,
                                 Line("show", Take(r.output, Len(r.output) - 1)))]))

----------------------------------------------------------------------------
(* The functions of the module and main *)

UsageText ==
    <<"u", "s", "a", "g", "e", ":", " ", "l", "s", " ", "[", "-", "a", "F", "h", "l", "S", "]", " ", "[", "f", "i", "l", "e", " ", ".", ".", ".", "]">>

NoSuchText ==
    <<":", " ", "N", "o", " ", "s", "u", "c", "h", " ", "f", "i", "l", "e", " ", "o", "r", " ", "d", "i", "r", "e", "c", "t", "o", "r", "y">>

IllegalText ==
    <<"l", "s", ":", " ", "i", "l", "l", "e", "g", "a", "l", " ", "o", "p", "t", "i", "o", "n", " ", "-", "-", " ">>

usage == <<Line("usage", UsageText)>>

\* a variant that prints the usage line before the error lines
print_no_such_file_or_dir_error_usage_first(noFileOrDirList) ==
    usage \o
    [i \in 1..Len(noFileOrDirList) |->
        Line("print_no_such_file_or_dir_error",
             <<"l", "s", ":", " ">> \o noFileOrDirList[i] \o NoSuchText)]

print_no_such_file_or_dir_error(noFileOrDirList) ==
    [i \in 1..Len(noFileOrDirList) |->
        Line("print_no_such_file_or_dir_error",
             <<"l", "s", ":", " ">> \o noFileOrDirList[i] \o NoSuchText)]
    \o usage

print_illegal_option(illegalOption) ==
    <<Line("print_illegal_option", IllegalText \o <<illegalOption>>)>>

\* lines tagged with the function of main's that was running and, for
\* output_of_dir_args, the index of the directory argument of the iteration
Tagged(lines, by, idx) ==
    [i \in 1..Len(lines) |->
        [src |-> lines[i].src, text |-> lines[i].text, by |-> by, idx |-> idx]]

\* files.show() as the last statement of a function: the function's outcome
ThenShow(a) ==
    IF ~a.ok THEN [ok |-> FALSE, printed |-> a.printed]
    ELSE With(show(a.fl), LAMBDA s : [ok |-> s.ok, printed |-> s.printed])

\* output_of_no_args
output_of_no_args(options, order) ==
    With(add_files_from_path(NewFileList(options), get_cwd, order), ThenShow)

\* the loop of output_of_file_args
RECURSIVE AddFileArgs(_, _)
AddFileArgs(fl, files) ==
    IF files = <<>> THEN [ok |-> TRUE, fl |-> fl, printed |-> <<>>]
    ELSE With(get_dir_name(Head(files)), LAMBDA path :
         With(add_file(fl, IF path = <<>> THEN get_cwd ELSE path, Head(files)),
              LAMBDA a : IF ~a.ok THEN a ELSE AddFileArgs(a.fl, Tail(files))))

output_of_file_args(files, options) ==
    With(AddFileArgs(NewFileList(options), files), ThenShow)

\* a variant that prints the blank line after every listing ("cnt <= len(dirArgs)")
output_of_dir_args_step_blank_after_each(dirs, cnt, argcnt, options, order) ==
    With(dirs[cnt + 1], LAMBDA dir :
    With(add_files_from_path(NewFileList(options), dir, order), LAMBDA a :
    With(IF argcnt > 1 THEN <<Line("output_of_dir_args", dir \o <<":">>)>> ELSE <<>>,
         LAMBDA header :
        IF ~a.ok THEN [ok |-> FALSE, printed |-> a.printed]
        ELSE With(show(a.fl), LAMBDA s :
                IF ~s.ok THEN [ok |-> FALSE, printed |-> header \o s.printed]
                ELSE [ok |-> TRUE,
                      printed |-> header \o s.printed \o
                                  (IF cnt + 1 <= Len(dirs)
                                   THEN <<Line("output_of_dir_args", <<>>)>>
                                   ELSE <<>>)]))))

\* one iteration of the loop of output_of_dir_args, cnt being its value before
\* the iteration
output_of_dir_args_step(dirs, cnt, argcnt, options, order) ==
    With(dirs[cnt + 1], LAMBDA dir :
    With(add_files_from_path(NewFileList(options), dir, order), LAMBDA a :
    With(IF argcnt > 1 THEN <<Line("output_of_dir_args", dir \o <<":">>)>> ELSE <<>>,
         LAMBDA header :
        IF ~a.ok THEN [ok |-> FALSE, printed |-> a.printed]
        ELSE With(show(a.fl), LAMBDA s :
                IF ~s.ok THEN [ok |-> FALSE, printed |-> header \o s.printed]
                ELSE [ok |-> TRUE,
                      printed |-> header \o s.printed \o
                                  (IF cnt + 1 < Len(dirs)
                                   THEN <<Line("output_of_dir_args", <<>>)>>
                                   ELSE <<>>)]))))

NoExit == -1

\* the paths given as arguments
ArgPaths ==
    { <<"f">>, <<"s", "/", "f">>, <<"/", "w", "/", "f">>, <<"d">>, <<"s", "/", "e">>,
      <<"k">>, <<"g">> }

\* the sets of option letters given: at most one option, all five, an illegal one
OptionSets ==
    {s \in SUBSET OptionLetters : Cardinality(s) <= 1} \cup {OptionLetters, {"x"}}

SeqsUpTo(S, n) == UNION {[1..k -> S] : k \in 0..n}

NoCall ==
    [op |-> "none", list |-> 0, path |-> <<>>, name |-> <<>>, wasEmpty |-> FALSE,
     printed |-> <<>>, calls |-> 0]

InitList ==
    /\ lists = [i \in 1..2 |-> NewFileList([o \in OptionLetters |-> FALSE])]
    /\ lpc = "idle"
    /\ last = NoCall

InitFile ==
    /\ fmode = 0
    /\ flink = FALSE
    /\ ftype = "unset"
    /\ ftext = <<>>

InitMain ==
    /\ pc = "start"
    /\ dictOpts = [o \in OptionLetters |-> FALSE]
    /\ fileArgs = <<>>
    /\ dirArgs = <<>>
    /\ noFileOrDirArgs = <<>>
    /\ dirIdx = 0
    /\ out = <<>>
    /\ exitStatus = NoExit

Init ==
    /\ optLetters \in OptionSets
    /\ args \in SeqsUpTo(ArgPaths, MaxArgs)
    /\ InitMain
    /\ InitList
    /\ InitFile

\* getopt.getopt(argv, "aFhlS", []) and the loop over opts
ParseOptions ==
    /\ pc = "start"
    /\ IF \E o \in optLetters : o \notin OptionLetters
       THEN /\ out' = out \o Tagged(print_illegal_option(
                                        CHOOSE o \in optLetters : o \notin OptionLetters)
                                    \o usage, "main", 0)
            /\ exitStatus' = 2
            /\ pc' = "exit"
            /\ UNCHANGED dictOpts
       ELSE /\ dictOpts' = [o \in OptionLetters |-> o \in optLetters]
            /\ pc' = "parsed"
            /\ UNCHANGED <<out, exitStatus>>
    /\ UNCHANGED <<optLetters, args, fileArgs, dirArgs, noFileOrDirArgs, dirIdx>>
    /\ UNCHANGED <<listVars, fileVars>>

\* main, len(args) == 0
NoArgs ==
    /\ pc = "parsed"
    /\ Len(args) = 0
    /\ \E order \in Orders(DirNames(get_cwd).val) :
         \E r \in {output_of_no_args(dictOpts, order)} :
             /\ out' = out \o Tagged(r.printed, "output_of_no_args", 0)
             /\ pc' = IF r.ok THEN "done" ELSE "crashed"
             /\ exitStatus' = IF r.ok THEN 0 ELSE 1
    /\ UNCHANGED <<optLetters, args, dictOpts, fileArgs, dirArgs, noFileOrDirArgs, dirIdx>>
    /\ UNCHANGED <<listVars, fileVars>>

\* main, the loop classifying the arguments
Classify ==
    /\ pc = "parsed"
    /\ Len(args) # 0
    /\ fileArgs' = SelectSeq(args, isfile)
    /\ dirArgs' = SelectSeq(args, LAMBDA a : ~isfile(a) /\ isdir(a))
    /\ noFileOrDirArgs' = SelectSeq(args, LAMBDA a : ~isfile(a) /\ ~isdir(a))
    /\ pc' = "errors"
    /\ UNCHANGED <<optLetters, args, dictOpts, dirIdx, out, exitStatus>>
    /\ UNCHANGED <<listVars, fileVars>>

\* main, if len(noFileOrDirArgs) > 0
ReportErrors ==
    /\ pc = "errors"
    /\ out' = IF Len(noFileOrDirArgs) > 0
              THEN out \o Tagged(print_no_such_file_or_dir_error(noFileOrDirArgs),
                                 "print_no_such_file_or_dir_error", 0)
              ELSE out
    /\ pc' = "files"
    /\ UNCHANGED <<optLetters, args, dictOpts, fileArgs, dirArgs, noFileOrDirArgs,
                   dirIdx, exitStatus>>
    /\ UNCHANGED <<listVars, fileVars>>

\* main, if len(fileArgs) > 0
FileArgs ==
    /\ pc = "files"
    /\ IF Len(fileArgs) > 0
       THEN \E r \in {output_of_file_args(fileArgs, dictOpts)} :
                /\ out' = out \o Tagged(r.printed, "output_of_file_args", 0)
                /\ pc' = IF r.ok THEN "dirs" ELSE "crashed"
                /\ exitStatus' = IF r.ok THEN exitStatus ELSE 1
       ELSE /\ pc' = "dirs"
            /\ UNCHANGED <<out, exitStatus>>
    /\ UNCHANGED <<optLetters, args, dictOpts, fileArgs, dirArgs, noFileOrDirArgs, dirIdx>>
    /\ UNCHANGED <<listVars, fileVars>>

\* main, if len(dirArgs) > 0: one iteration of output_of_dir_args
DirArg ==
    /\ pc = "dirs"
    /\ dirIdx < Len(dirArgs)
    /\ \E order \in Orders(DirNames(dirArgs[dirIdx + 1]).val) :
         \E r \in {output_of_dir_args_step(dirArgs, dirIdx,
                                             Len(fileArgs) + Len(dirArgs), dictOpts, order)} :
             /\ out' = out \o Tagged(r.printed, "output_of_dir_args", dirIdx + 1)
             /\ pc' = IF r.ok THEN "dirs" ELSE "crashed"
             /\ exitStatus' = IF r.ok THEN exitStatus ELSE 1
             /\ dirIdx' = IF r.ok THEN dirIdx + 1 ELSE dirIdx
    /\ UNCHANGED <<optLetters, args, dictOpts, fileArgs, dirArgs, noFileOrDirArgs>>
    /\ UNCHANGED <<listVars, fileVars>>

\* main returns and the interpreter exits
Return ==
    /\ pc = "dirs"
    /\ dirIdx = Len(dirArgs)
    /\ pc' = "done"
    /\ exitStatus' = 0
    /\ UNCHANGED <<optLetters, args, dictOpts, fileArgs, dirArgs, noFileOrDirArgs,
                   dirIdx, out>>
    /\ UNCHANGED <<listVars, fileVars>>

Next ==
    \/ ParseOptions
    \/ NoArgs
    \/ Classify
    \/ ReportErrors
    \/ FileArgs
    \/ DirArg
    \/ Return

Spec == Init /\ [][Next]_vars

----------------------------------------------------------------------------
(* Two FileList objects, driven by any sequence of calls *)

\* the options the FileLists are created with
ListOptionSets == {{}, {"a"}, {"S"}, {"l"}, {"a", "S"}, OptionLetters}

\* the directories given to add_files_from_path
ListDirs == { <<"d">>, <<"s">>, <<"k">> }

\* the (path, name) pairs given to add_file
ListFiles == { << <<"/", "w">>, <<"f">> >>, << <<"s">>, <<"f">> >>, << <<"k">>, <<"y">> >> }

InitL ==
    /\ optLetters = {}
    /\ args = <<>>
    /\ InitMain
    /\ InitFile
    /\ \E opts \in ListOptionSets :
         lists = [i \in 1..2 |-> NewFileList([o \in OptionLetters |-> o \in opts])]
    /\ lpc = "run"
    /\ last = NoCall

\* the state after a call on FileList i with outcome r
Called(i, r, op, path, name) ==
    /\ lists' = [lists EXCEPT ![i] = r.fl]
    /\ lpc' = IF r.ok THEN "run" ELSE "crashed"
    /\ last' = [op |-> op, list |-> i, path |-> path, name |-> name,
                wasEmpty |-> lists[i].files = <<>>, printed |-> r.printed,
                calls |-> last.calls + 1]
    /\ UNCHANGED <<mainVars, fileVars>>

AddFilesFromPath(i, path) ==
    /\ lpc = "run"
    /\ last.calls < MaxCalls
    /\ \E order \in Orders(DirNames(path).val) :
         \E r \in {add_files_from_path(lists[i], path, order)} :
            Called(i, r, "add_files_from_path", path, <<>>)

AddFile(i, path, name) ==
    /\ lpc = "run"
    /\ last.calls < MaxCalls
    /\ \E r \in {add_file(lists[i], path, name)} : Called(i, r, "add_file", path, name)

Show(i) ==
    /\ lpc = "run"
    /\ last.calls < MaxCalls
    /\ \E r \in {show(lists[i])} : Called(i, r, "show", <<>>, <<>>)

NextL ==
    \/ \E i \in 1..2, path \in ListDirs : AddFilesFromPath(i, path)
    \/ \E i \in 1..2, pn \in ListFiles : AddFile(i, pn[1], pn[2])
    \/ \E i \in 1..2 : Show(i)

SpecL == InitL /\ [][NextL]_vars

----------------------------------------------------------------------------
(* One File object, for every st_mode and either result of is_symlink *)

Formats == {S_IFDIR, S_IFCHR, S_IFBLK, S_IFREG, S_IFIFO, S_IFLNK, S_IFSOCK, 0}

InitF ==
    /\ optLetters = {}
    /\ args = <<>>
    /\ InitMain
    /\ InitList
    /\ fmode \in {fmt + bits : fmt \in Formats, bits \in 0..(S_IFIFO - 1)}
    /\ flink \in BOOLEAN
    /\ ftype = "unset"
    /\ ftext = <<>>

\* File.__init__ after a successful get_stat
FileInit ==
    /\ ftype = "unset"
    /\ ftype' = get_type(fmode, flink)
    /\ UNCHANGED <<fmode, flink, ftext, mainVars, listVars>>

GetPermissionsText ==
    /\ ftype # "unset"
    /\ ftext = <<>>
    /\ ftext' = get_permissions_text(ftype, fmode, flink)
    /\ UNCHANGED <<fmode, flink, ftype, mainVars, listVars>>

NextF ==
    \/ FileInit
    \/ GetPermissionsText

SpecF == InitF /\ [][NextF]_vars

----------------------------------------------------------------------------
(* Properties of one run of main (specification Spec) *)

IsErrorLine(l) == l.src = "print_no_such_file_or_dir_error"
IsUsageLine(l) == l.src = "usage" /\ l.by = "print_no_such_file_or_dir_error"
IsFileLine(l) == l.by = "output_of_file_args"
IsDirLine(l) == l.by = "output_of_dir_args"
IsListing(l) == l.src = "show"
IsHeader(l) == l.src = "output_of_dir_args" /\ l.text # <<>>
IsBlank(l) == l.src = "output_of_dir_args" /\ l.text = <<>>

Phase(l) ==
    IF IsErrorLine(l) THEN 1
    ELSE IF IsUsageLine(l) THEN 2
    ELSE IF IsFileLine(l) THEN 3
    ELSE IF IsDirLine(l) THEN 4
    ELSE 0

Count(seq, P(_)) == Cardinality({i \in 1..Len(seq) : P(seq[i])})

Nonexistent(path) == Lookup(path, TRUE) = NoNode
Ghosts == SelectSeq(args, Nonexistent)
NumGhosts == Len(Ghosts)

\* C1: main prints in three phases: one "No such file or directory" line per
\* nonexistent argument, in argument order, then exactly one usage line; then
\* the single listing of all file arguments; then the listings of the directory
\* arguments in argument order.  No listing output precedes an error line.
C1_ThreePhases ==
    /\ \A i, j \in 1..Len(out) :
         i < j => /\ Phase(out[i]) <= Phase(out[j])
                  /\ Phase(out[i]) = 4 => out[i].idx <= out[j].idx
    /\ pc \in {"files", "dirs", "done", "crashed"} =>
         /\ Count(out, IsErrorLine) = NumGhosts
         /\ \A i \in 1..NumGhosts :
              /\ IsErrorLine(out[i])
              /\ out[i].text = <<"l", "s", ":", " ">> \o Ghosts[i] \o NoSuchText
         /\ Count(out, IsUsageLine) = IF NumGhosts > 0 THEN 1 ELSE 0
         /\ NumGhosts > 0 => IsUsageLine(out[NumGhosts + 1])
    /\ Count(out, LAMBDA l : IsFileLine(l) /\ IsListing(l)) <= 1
    /\ pc \in {"dirs", "done"} /\ fileArgs # <<>> =>
         Count(out, LAMBDA l : IsFileLine(l) /\ IsListing(l)) = 1
    /\ pc = "done" /\ args # <<>> =>
         \A k \in 1..Len(dirArgs) :
            Count(out, LAMBDA l : IsDirLine(l) /\ IsListing(l) /\ l.idx = k) = 1

C1_Witness ==
    /\ pc = "done"
    /\ NumGhosts > 0 /\ fileArgs # <<>> /\ dirArgs # <<>>
    /\ \E i, j, k \in 1..Len(out) :
         /\ i < j /\ j < k
         /\ IsUsageLine(out[i])
         /\ IsFileLine(out[j]) /\ IsListing(out[j])
         /\ IsDirLine(out[k]) /\ IsListing(out[k])

\* C2: in output_of_dir_args, when there is more than one file or directory
\* argument every directory listing is preceded by the line "<dirname>:", when
\* there is exactly one no header is printed; and for n directory arguments
\* output_of_dir_args prints n-1 blank lines, each between two consecutive
\* directory listings, none after the last.
C2_HeadersAndBlanks ==
    /\ \A i \in 1..Len(out) :
         /\ IsDirLine(out[i]) /\ IsListing(out[i]) /\ Len(fileArgs) + Len(dirArgs) > 1 =>
              /\ i > 1
              /\ IsHeader(out[i - 1])
              /\ out[i - 1].idx = out[i].idx
              /\ out[i - 1].text = dirArgs[out[i].idx] \o <<":">>
         /\ Len(fileArgs) + Len(dirArgs) <= 1 => ~IsHeader(out[i])
         /\ IsBlank(out[i]) =>
              /\ i > 1
              /\ IsDirLine(out[i - 1]) /\ IsListing(out[i - 1])
              /\ out[i - 1].idx = out[i].idx
              /\ out[i].idx < Len(dirArgs)
              /\ i < Len(out) => out[i + 1].idx = out[i].idx + 1
    /\ pc = "done" /\ dirArgs # <<>> =>
         /\ Count(out, IsBlank) = Len(dirArgs) - 1
         /\ IsListing(out[Len(out)])
         /\ \A k \in 1..(Len(dirArgs) - 1) :
              Count(out, LAMBDA l : IsBlank(l) /\ l.idx = k) = 1

C2_Witness ==
    /\ pc = "done"
    /\ Len(dirArgs) = 3
    /\ Count(out, IsBlank) = 2
    /\ Count(out, IsHeader) = 3

\* C5: when every path argument is nonexistent, the run prints one "No such
\* file or directory" line per argument and the usage line, nothing else, and
\* ends with a nonzero exit status.
C5_AllNonexistent ==
    (/\ exitStatus # NoExit
     /\ optLetters \subseteq OptionLetters
     /\ args # <<>>
     /\ \A i \in 1..Len(args) : Nonexistent(args[i]))
    => /\ Len(out) = Len(args) + 1
       /\ \A i \in 1..Len(args) :
            out[i].text = <<"l", "s", ":", " ">> \o args[i] \o NoSuchText
       /\ out[Len(out)].text = UsageText
       /\ exitStatus # 0

\* C6: a failing stat of one name while a directory is added is reported and
\* skipped: the run does not abort, and the listing of that directory is
\* still rendered.
C6_EntryFailureIsolated ==
    \A i \in 1..Len(out) :
        out[i].src = "get_stat" /\ IsDirLine(out[i]) =>
            /\ pc # "crashed"
            /\ pc = "done" =>
                 \E j \in 1..Len(out) :
                    IsDirLine(out[j]) /\ IsListing(out[j]) /\ out[j].idx = out[i].idx

\* C9: for every argument classified as a regular file, the path whose metadata
\* is fetched, directory + "/" + name, denotes that same file, so the entry is
\* constructed and listed.
C9_FileArgStatPath ==
    /\ \A k \in 1..Len(fileArgs) :
         Lookup(WithSlash(IF get_dir_name(fileArgs[k]) = <<>> THEN get_cwd
                          ELSE get_dir_name(fileArgs[k])) \o fileArgs[k], TRUE)
            = Lookup(fileArgs[k], TRUE)
    /\ \A i \in 1..Len(out) : ~(out[i].src = "get_stat" /\ IsFileLine(out[i]))
    /\ pc \in {"dirs", "done", "crashed"} /\ fileArgs # <<>> =>
         \E i \in 1..Len(out) : IsFileLine(out[i]) /\ IsListing(out[i])

----------------------------------------------------------------------------
(* Properties of FileList (specification SpecL) *)

TheList == lists[last.list]
Completed(op) == last.op = op /\ lpc = "run"

NameLeq(f, g) == ~StrLess(g.name, f.name)

RECURSIVE JoinTab(_)
JoinTab(strs) ==
    IF strs = <<>> THEN <<>>
    ELSE IF Len(strs) = 1 THEN strs[1]
    ELSE strs[1] \o <<"\t">> \o JoinTab(Tail(strs))

\* C3: show() renders the entries in ascending name order when option S is off,
\* and in descending size order when S is on, two entries of equal size keeping
\* their name-ascending order.
C3_ShowOrder ==
    Completed("show") =>
        /\ \A k, m \in 1..Len(TheList.files) :
             k < m =>
                IF TheList.options["S"]
                THEN /\ TheList.files[k].stat.st_size >= TheList.files[m].stat.st_size
                     /\ TheList.files[k].stat.st_size = TheList.files[m].stat.st_size
                          => NameLeq(TheList.files[k], TheList.files[m])
                ELSE NameLeq(TheList.files[k], TheList.files[m])
        /\ ~TheList.options["l"] /\ ~TheList.options["F"] =>
             last.printed[Len(last.printed)].text
                = JoinTab([k \in 1..Len(TheList.files) |-> TheList.files[k].name])

C3_Witness ==
    /\ Completed("show")
    /\ TheList.options["S"]
    /\ \E k, m, n \in 1..Len(TheList.files) :
         /\ k < m
         /\ TheList.files[k].stat.st_size = TheList.files[m].stat.st_size
         /\ StrLess(TheList.files[k].name, TheList.files[m].name)
         /\ TheList.files[n].stat.st_size < TheList.files[m].stat.st_size
         /\ StrLess(TheList.files[n].name, TheList.files[k].name)

EnumeratedNames(path) == {e[1] : e \in FS[Lookup(path, TRUE)].entries}

\* C4: after add_files_from_path(D) on an empty FileList, with option a the
\* entries are exactly the enumerated names of D plus "." and ".."; without a
\* they are exactly the enumerated names that do not begin with ".".
C4_DirectoryEntries ==
    Completed("add_files_from_path") /\ last.wasEmpty =>
        /\ {TheList.files[k].name : k \in 1..Len(TheList.files)}
             = IF TheList.options["a"]
               THEN EnumeratedNames(last.path) \cup {<<".">>, <<".", ".">>}
               ELSE {n \in EnumeratedNames(last.path) : n[1] # "."}
        /\ \A k, m \in 1..Len(TheList.files) :
             k # m => TheList.files[k].name # TheList.files[m].name

C4_Witness ==
    /\ Completed("add_files_from_path") /\ last.wasEmpty
    /\ TheList.options["a"]
    /\ \E k, m \in 1..Len(TheList.files) :
         /\ TheList.files[k].name = <<".", ".">>
         /\ TheList.files[m].name = <<".", "h">>

MaxOver(S) == CHOOSE m \in S \cup {0} : \A x \in S : m >= x

FieldLengths(fl, F(_)) == {Len(F(fl.files[k])) : k \in 1..Len(fl.files)}

UserName(file) == get_user_name(file).val
GroupName(file) == get_group_name(file).val

WidthsRight(fl) ==
    /\ fl.maxFileSize = MaxOver(FieldLengths(fl, get_size_str))
    /\ fl.maxUserNameSize = MaxOver(FieldLengths(fl, UserName))
    /\ fl.maxGroupNameSize.set
    /\ fl.maxGroupNameSize.val = MaxOver(FieldLengths(fl, GroupName))
    /\ fl.maxHarLinkSize = MaxOver(FieldLengths(fl, get_link_count))

\* C7: after every add_file or add_files_from_path call, each of the four
\* widths the long format reads (size, user name, group name, hard-link count)
\* is the maximum length of that field over the entries of that FileList, and
\* the widths of a FileList are not changed by a call on the other one.
C7_ColumnWidths ==
    /\ [](Completed("add_file") \/ Completed("add_files_from_path")
            => WidthsRight(TheList))
    /\ [][\A i \in 1..2 : i # last'.list => lists'[i] = lists[i]]_vars

C7_Witness ==
    /\ Completed("add_file")
    /\ last.list = 2
    /\ Len(lists[1].files) > 1 /\ Len(lists[2].files) > 0
    /\ lists[1].maxGroupNameSize.val > lists[2].maxGroupNameSize.val
    /\ lists[1].maxFileSize < lists[2].maxFileSize

----------------------------------------------------------------------------
(* Properties of File (specification SpecF) *)

Bit(mode, b) == (mode \div b) % 2 = 1

Ch(mode, b, c) == IF Bit(mode, b) THEN c ELSE "-"

Exec(mode, special, xbit, lower, upper) ==
    IF Bit(mode, special) THEN (IF Bit(mode, xbit) THEN lower ELSE upper)
    ELSE Ch(mode, xbit, "x")

\* C8: get_permissions_text returns 10 characters, the first being the kind
\* glyph; a symlink yields "lrwxrwxrwx" whatever its bits; setuid, setgid and
\* sticky replace only the execute position of their triplet, by s/S, s/S, t/T
\* according to the execute bit.
C8_PermissionsText ==
    ftext # <<>> =>
        /\ Len(ftext) = 10
        /\ ftext[1] = ftype
        /\ ftype \in {"d", "l", "-", "b", "c", "p", "s", "?"}
        /\ IF ftype = "l"
           THEN ftext = <<"l", "r", "w", "x", "r", "w", "x", "r", "w", "x">>
           ELSE SubSeq(ftext, 2, 10) =
                  << Ch(fmode, 256, "r"), Ch(fmode, 128, "w"),
                     Exec(fmode, 2048, 64, "s", "S"),
                     Ch(fmode, 32, "r"), Ch(fmode, 16, "w"),
                     Exec(fmode, 1024, 8, "s", "S"),
                     Ch(fmode, 4, "r"), Ch(fmode, 2, "w"),
                     Exec(fmode, 512, 1, "t", "T") >>

C8_Witness ==
    /\ ftext = <<"-", "r", "w", "S", "r", "-", "s", "-", "-", "t">>
    /\ ftype = "-"

\* the kind the claimed order gives: symlink by either signal first
ClaimedKind(st_mode, islink) ==
    IF BitAnd(st_mode, S_IFMT) = S_IFLNK \/ islink THEN "l"
    ELSE IF BitAnd(st_mode, S_IFMT) = S_IFDIR THEN "d"
    ELSE IF BitAnd(st_mode, S_IFMT) = S_IFREG THEN "-"
    ELSE IF BitAnd(st_mode, S_IFMT) = S_IFBLK THEN "b"
    ELSE IF BitAnd(st_mode, S_IFMT) = S_IFCHR THEN "c"
    ELSE IF BitAnd(st_mode, S_IFMT) = S_IFIFO THEN "p"
    ELSE IF BitAnd(st_mode, S_IFMT) = S_IFSOCK THEN "s"
    ELSE "?"

\* C10: the kind is the first match in the order symlink (by the mode bits or
\* by the direct check), directory, regular, block, character, FIFO, socket,
\* unknown; when the direct check reports a symlink the kind is "l" even for a
\* directory.
C10_SymlinkFirst ==
    ftype # "unset" => ftype = ClaimedKind(fmode, flink)

====
